---- MODULE Spec2Model ----
\* A model of fish_key_reader (src/src/fish_key_reader.cpp): the session loop
\* process_input, its four per-byte helpers (output_elapsed_time,
\* output_info_about_char, key_name, should_exit) and the asynchronous
\* signal_handler.  Standard output is the history variable out, one element per
\* printf/putchar call.
EXTENDS Integers, Sequences, FiniteSets, TLC

VARIABLES
    keep_running,       \* static bool keep_running (line 37)
    exit_recent_chars,  \* should_exit: static unsigned char recent_chars[4]
    key_recent_chars,   \* key_name: static char recent_chars[8]
    continuous_mode,    \* process_input's parameter
    first_char_seen,    \* process_input's local
    prev_tstamp,        \* process_input's local, microseconds
    wc,                 \* process_input's local: the unit the last read returned
    pc,                 \* where process_input is
    table,              \* the terminfo name table input_terminfo_get_name searches
    char_signed,        \* whether plain char is signed in this build
    clock,              \* the wall clock timef() reads, microseconds since the epoch
    out,                \* standard output, one [kind, text] record per printf call
    requests,           \* history: the timed argument of every input_common_readch call
    delivered,          \* history: every unit input_common_readch returned
    exit_calls,         \* history: [c, ret] of every should_exit call
    key_calls,          \* history: [c, ret, lookups] of every key_name call
    signals             \* history: every signal number delivered to signal_handler

vars == <<keep_running, exit_recent_chars, key_recent_chars, continuous_mode,
          first_char_seen, prev_tstamp, wc, pc, table, char_signed, clock, out,
          requests, delivered, exit_calls, key_calls, signals>>

\* ---------------------------------------------------------------- bounds

\* Reads the session specifications allow before the input source goes quiet.
MaxReads == 3
\* Signals delivered in one session.
MaxSignals == 1
\* Calls of should_exit when it is driven on its own.
MaxExitPush == 5
\* Calls of key_name when it is driven on its own.
MaxKeyPush == 8
\* Calls of signal_handler when it is driven on its own.
MaxHandlerCalls == 2

\* ------------------------------------------------------- program constants

WEOF == -1
SIGINT == 2
SIGABRT == 6
SIGSEGV == 11
SIGTERM == 15
\* Two signals that signal_handler only reports.
SIGHUP == 1
SIGWINCH == 28
\* Sizes of the two static windows.
ExitWindow == 4
KeyWindow == 8
\* output_elapsed_time's thresholds, microseconds.
BurstGap == 200000
LongPause == 1000000

Byte == 0..255
NoName == "<NULL>"

\* ------------------------------------------------------------- formatting

Digits == <<"0", "1", "2", "3", "4", "5", "6", "7", "8", "9",
            "A", "B", "C", "D", "E", "F">>

\* The characters of codes 32..126, in order (code 96, the grave accent, is
\* written <grave>: a TLA+ string cannot hold that character).
AsciiChars ==
    <<" ", "!", "\"", "#", "$", "%", "&", "'", "(", ")", "*", "+", ",", "-", ".", "/",
      "0", "1", "2", "3", "4", "5", "6", "7", "8", "9", ":", ";", "<", "=", ">", "?",
      "@", "A", "B", "C", "D", "E", "F", "G", "H", "I", "J", "K", "L", "M", "N", "O",
      "P", "Q", "R", "S", "T", "U", "V", "W", "X", "Y", "Z", "[", "\\", "]", "^", "_",
      "<grave>", "a", "b", "c", "d", "e", "f", "g", "h", "i", "j", "k", "l", "m", "n", "o",
      "p", "q", "r", "s", "t", "u", "v", "w", "x", "y", "z", "{", "|", "}", "~">>

\* printf's %c for a code in 32..126.
Chr(n) == AsciiChars[n - 31]

\* printf's %3u / %3lld: decimal, blank-padded on the left to width 3.
FmtDec3(n) ==
    IF n < 10 THEN "  " \o ToString(n)
    ELSE IF n < 100 THEN " " \o ToString(n)
    ELSE ToString(n)

\* printf's %03lld: decimal, zero-padded on the left to width 3.
FmtZero3(n) ==
    IF n < 10 THEN "00" \o ToString(n)
    ELSE IF n < 100 THEN "0" \o ToString(n)
    ELSE ToString(n)

\* printf's %03o for a byte.
FmtOct3(n) == Digits[(n \div 64) + 1] \o Digits[((n \div 8) % 8) + 1] \o Digits[(n % 8) + 1]

\* printf's %02X for a byte.
FmtHex2(n) == Digits[(n \div 16) + 1] \o Digits[(n % 16) + 1]

Item(k, t) == [kind |-> k, text |-> t]

\* printf's %llx: lower-case hexadecimal, no padding.
LowerDigits == <<"0", "1", "2", "3", "4", "5", "6", "7", "8", "9",
                 "a", "b", "c", "d", "e", "f">>

RECURSIVE FmtHexLower(_)
FmtHexLower(n) ==
    IF n < 16 THEN LowerDigits[n + 1]
    ELSE FmtHexLower(n \div 16) \o LowerDigits[(n % 16) + 1]

\* ------------------------------------------------- output_info_about_char

\* A table with one NULL too many before "\\a": every alias one code late.
ctrl_symbolic_names_shifted ==
    <<NoName, NoName, NoName, NoName, NoName, NoName, NoName, NoName,
      "\\a", "\\b", "\\t", "\\n", "\\v", "\\f", "\\r", NoName,
      NoName, NoName, NoName, NoName, NoName, NoName, NoName, NoName,
      NoName, NoName, NoName, NoName, "\\e", NoName, NoName, NoName>>

\* ctrl_symbolic_names[32]; NoName stands for a NULL entry.
ctrl_symbolic_names ==
    <<NoName, NoName, NoName, NoName, NoName, NoName, NoName, "\\a",
      "\\b", "\\t", "\\n", "\\v", "\\f", "\\r", NoName, NoName,
      NoName, NoName, NoName, NoName, NoName, NoName, NoName, NoName,
      NoName, NoName, NoName, "\\e", NoName, NoName, NoName, NoName>>

\* A description branch whose first test is c <= 32 and whose last-but-one is
\* c > 128 (two off-by-one comparisons).
InfoBranchOffByOne(c) ==
    IF c <= 32 THEN
        <<Item("ctrl", "\\c" \o Chr(c + 64))>>
    ELSE IF c = 127 THEN
        <<Item("del", "\\" \o FmtOct3(c) \o "  (aka \"del\")")>>
    ELSE IF c > 128 THEN
        <<Item("nonascii", "\\" \o FmtOct3(c) \o "  (aka non-ASCII)")>>
    ELSE
        <<Item("printable", IF c < 127 THEN Chr(c) ELSE "?")>>

\* The description branch of output_info_about_char: the if/else chain of
\* lines 77-93, one item per printf call.
InfoBranch(c) ==
    IF c < 32 THEN
        <<Item("ctrl", "\\c" \o Chr(c + 64))>>
        \o (IF ctrl_symbolic_names[c + 1] # NoName
            THEN <<Item("alias", "   (or " \o ctrl_symbolic_names[c + 1] \o ")")>>
            ELSE <<>>)
    ELSE IF c = 32 THEN
        <<Item("space", "\\" \o FmtOct3(c) \o "  (aka \"space\")")>>
    ELSE IF c = 127 THEN
        <<Item("del", "\\" \o FmtOct3(c) \o "  (aka \"del\")")>>
    ELSE IF c >= 128 THEN
        <<Item("nonascii", "\\" \o FmtOct3(c) \o "  (aka non-ASCII)")>>
    ELSE
        <<Item("printable", Chr(c))>>

\* Everything output_info_about_char(c) prints.
output_info_about_char(c) ==
    <<Item("numeric", "dec: " \o FmtDec3(c) \o "  oct: " \o FmtOct3(c)
                      \o "  hex: " \o FmtHex2(c) \o "  char: ")>>
    \o InfoBranch(c)
    \o <<Item("eol", "\n")>>

\* ------------------------------------------------------------ should_exit

ExitPhrase == <<101, 120, 105, 116>>   \* "exit"
QuitPhrase == <<113, 117, 105, 116>>   \* "quit"

\* A shift that leaves recent_chars[0] alone (line 43 missing).
ShouldExitShiftStale(rc, c) == <<rc[1], rc[3], rc[4], c>>

\* Lines 43-46: the four-byte shift register after pushing c.
ShouldExitShift(rc, c) == <<rc[2], rc[3], rc[4], c>>

\* A comparison of the last three bytes only ("xit", "uit").
ShouldExitCompareTail(rc) ==
    SubSeq(rc, 2, 4) = SubSeq(ExitPhrase, 2, 4) \/ SubSeq(rc, 2, 4) = SubSeq(QuitPhrase, 2, 4)

\* Line 47: the two memcmp calls on the shifted window.
ShouldExitCompare(rc) == rc = ExitPhrase \/ rc = QuitPhrase

\* ---------------------------------------------------------------- key_name

\* Storing an unsigned char into a plain char (line 61).
ToChar(c) == IF char_signed /\ c >= 128 THEN c - 256 ELSE c

\* A shift register without line 60 (recent_chars[6] = recent_chars[7]).
KeyNameShiftStale(rc, c) ==
    <<rc[2], rc[3], rc[4], rc[5], rc[6], rc[7], rc[7], ToChar(c)>>

\* Lines 54-61: the eight-char shift register after pushing c.
KeyNameShift(rc, c) ==
    <<rc[2], rc[3], rc[4], rc[5], rc[6], rc[7], rc[8], ToChar(c)>>

\* str2wcstring(in, len) in the single-byte locale the program sets: one wide
\* character per char, its value the char read as an unsigned char.  idx is the
\* zero-based offset of in within the array.
str2wcstring(rc, idx, len) == [i \in 1..len |-> (rc[idx + i] + 256) % 256]

\* input_terminfo_get_name(seq, &out_name): the name of the first table entry
\* whose sequence is seq, NoName when there is none.
input_terminfo_get_name(seq) ==
    LET hits == {i \in 1..Len(table) : table[i].seq = seq}
    IN  IF hits = {} THEN NoName
        ELSE table[CHOOSE i \in hits : \A j \in hits : i <= j].name

\* Lines 63-72: the loop over idx = 7 down to 0, from idx on.
RECURSIVE KeyNameLoop(_, _)
KeyNameLoop(rc, idx) ==
    IF idx < 0 THEN NoName
    ELSE LET seq == str2wcstring(rc, idx, KeyWindow - idx)
             found == input_terminfo_get_name(seq)
         IN  IF found # NoName THEN found ELSE KeyNameLoop(rc, idx - 1)

\* The sequences that loop hands to input_terminfo_get_name, in order.
RECURSIVE KeyNameLookups(_, _)
KeyNameLookups(rc, idx) ==
    IF idx < 0 THEN <<>>
    ELSE LET seq == str2wcstring(rc, idx, KeyWindow - idx)
         IN  IF input_terminfo_get_name(seq) # NoName THEN <<seq>>
             ELSE <<seq>> \o KeyNameLookups(rc, idx - 1)

\* A key_name whose loop runs idx = 0 up to 7: the longest suffix first.
RECURSIVE KeyNameLoopUp(_, _)
KeyNameLoopUp(rc, idx) ==
    IF idx >= KeyWindow THEN NoName
    ELSE LET found == input_terminfo_get_name(str2wcstring(rc, idx, KeyWindow - idx))
         IN  IF found # NoName THEN found ELSE KeyNameLoopUp(rc, idx + 1)

key_name_longest_first(rc) == KeyNameLoopUp(rc, 0)

\* key_name's return value on the shifted window.
key_name(rc) == KeyNameLoop(rc, KeyWindow - 1)

\* ----------------------------------------------------- output_elapsed_time

\* Line 108: microseconds since the previous timestamp.
DeltaTstampUs(now, prev) == now - prev

\* An output_elapsed_time that forgets first_char_seen in the separator test.
output_elapsed_time_unguarded(delta_tstamp_us, seen) ==
    (IF delta_tstamp_us >= BurstGap THEN <<Item("separator", "\n")>> ELSE <<>>)
    \o (IF delta_tstamp_us >= LongPause
        THEN <<Item("elapsed_blank", "              ")>>
        ELSE <<Item("elapsed_ms", "(" \o FmtDec3(delta_tstamp_us \div 1000) \o "."
                                  \o FmtZero3(delta_tstamp_us % 1000) \o " ms)  ")>>)

\* An output_elapsed_time that pads only above LongPause (> for >=).
output_elapsed_time_strict(delta_tstamp_us, seen) ==
    (IF delta_tstamp_us >= BurstGap /\ seen THEN <<Item("separator", "\n")>> ELSE <<>>)
    \o (IF delta_tstamp_us > LongPause
        THEN <<Item("elapsed_blank", "              ")>>
        ELSE <<Item("elapsed_ms", "(" \o FmtDec3(delta_tstamp_us \div 1000) \o "."
                                  \o FmtZero3(delta_tstamp_us % 1000) \o " ms)  ")>>)

\* Lines 110-115: what output_elapsed_time prints for that delta.
output_elapsed_time(delta_tstamp_us, seen) ==
    (IF delta_tstamp_us >= BurstGap /\ seen THEN <<Item("separator", "\n")>> ELSE <<>>)
    \o (IF delta_tstamp_us >= LongPause
        THEN <<Item("elapsed_blank", "              ")>>
        ELSE <<Item("elapsed_ms", "(" \o FmtDec3(delta_tstamp_us \div 1000) \o "."
                                  \o FmtZero3(delta_tstamp_us % 1000) \o " ms)  ")>>)

\* ------------------------------------------------------------ signal names

\* sig2wcs(signo), for the signals the model delivers.
sig2wcs(signo) ==
    CASE signo = SIGHUP -> "SIGHUP"
      [] signo = SIGINT -> "SIGINT"
      [] signo = SIGABRT -> "SIGABRT"
      [] signo = SIGSEGV -> "SIGSEGV"
      [] signo = SIGTERM -> "SIGTERM"
      [] signo = SIGWINCH -> "SIGWINCH"
      [] OTHER -> "Unknown"

\* ------------------------------------------------------------ name tables

EntryO == [seq |-> <<79>>, name |-> "O"]
EntryF1 == [seq |-> <<27, 79>>, name |-> "F1"]
EntryUp8 == [seq |-> <<155, 65>>, name |-> "up8"]
EntryLong == [seq |-> <<65, 65, 65, 65, 65, 65, 27, 79>>, name |-> "long"]

TableF1 == <<EntryF1>>
TableOF1 == <<EntryO, EntryF1>>

\* ------------------------------------------------------------ initial state

\* The wall clock when the session starts.  The real value is the time since
\* 1970; the model takes a smaller one that is still far above LongPause, the
\* only thing the code compares it with.
StartClock == 1500 * LongPause

\* The state when process_input has printed its banner and reaches the loop.
InitWith(modes, tables, signedness) ==
    /\ keep_running = TRUE
    /\ exit_recent_chars = <<0, 0, 0, 0>>
    /\ key_recent_chars = <<0, 0, 0, 0, 0, 0, 0, 0>>
    /\ continuous_mode \in modes
    /\ first_char_seen = FALSE
    /\ prev_tstamp = 0
    /\ wc = 0
    /\ pc = "top"
    /\ table \in tables
    /\ char_signed \in signedness
    /\ clock = StartClock
    /\ out = <<Item("banner", "Press a key\n\n")>>
    /\ requests = <<>>
    /\ delivered = <<>>
    /\ exit_calls = <<>>
    /\ key_calls = <<>>
    /\ signals = <<>>

\* ------------------------------------------------------------ process_input

\* A loop that calls input_common_readch without testing keep_running first.
LoopTestNoCheck ==
    /\ pc = "top"
    /\ pc' = "read"
    /\ requests' = Append(requests, first_char_seen /\ ~continuous_mode)
    /\ UNCHANGED <<keep_running, exit_recent_chars, key_recent_chars, continuous_mode,
                   first_char_seen, prev_tstamp, wc, table, char_signed, clock, out,
                   delivered, exit_calls, key_calls, signals>>

\* A loop that asks for a timed read after the first byte in both modes.
LoopTestTimedAfterFirst ==
    /\ pc = "top"
    /\ IF keep_running
       THEN /\ pc' = "read"
            /\ requests' = Append(requests, first_char_seen)
       ELSE /\ pc' = "done"
            /\ requests' = requests
    /\ UNCHANGED <<keep_running, exit_recent_chars, key_recent_chars, continuous_mode,
                   first_char_seen, prev_tstamp, wc, table, char_signed, clock, out,
                   delivered, exit_calls, key_calls, signals>>

\* Line 125-126: the while test, then the call of input_common_readch.
LoopTest ==
    /\ pc = "top"
    /\ IF keep_running
       THEN /\ pc' = "read"
            /\ requests' = Append(requests, first_char_seen /\ ~continuous_mode)
       ELSE /\ pc' = "done"
            /\ UNCHANGED requests
    /\ UNCHANGED <<keep_running, exit_recent_chars, key_recent_chars, continuous_mode,
                   first_char_seen, prev_tstamp, wc, table, char_signed, clock, out,
                   delivered, exit_calls, key_calls, signals>>

\* A read with no WEOF test: the marker is narrowed to unsigned char like a byte.
ReadUnitNoEofTest(u, gap) ==
    /\ pc = "read"
    /\ wc' = IF u = WEOF THEN 255 ELSE u
    /\ clock' = clock + gap
    /\ delivered' = Append(delivered, u)
    /\ IF u > 255 THEN
           /\ out' = Append(out, Item("unexpected",
                         "\nUnexpected wide character from input_common_readch(): "
                         \o ToString(u) \o " / 0x" \o FmtHexLower(u) \o "\n"))
           /\ pc' = "done"
       ELSE
           /\ pc' = "elapsed"
           /\ UNCHANGED out
    /\ UNCHANGED <<keep_running, exit_recent_chars, key_recent_chars, continuous_mode,
                   first_char_seen, prev_tstamp, table, char_signed,
                   requests, exit_calls, key_calls, signals>>

\* A read that reports a wide unit and then goes on to process its low byte
\* (the return of line 132 missing).
ReadUnitWideFallsThrough(u, gap) ==
    /\ pc = "read"
    /\ wc' = IF u > 255 THEN u % 256 ELSE u
    /\ clock' = clock + gap
    /\ delivered' = Append(delivered, u)
    /\ IF u = WEOF THEN
           /\ pc' = "done"
           /\ UNCHANGED out
       ELSE IF u > 255 THEN
           /\ out' = Append(out, Item("unexpected",
                         "\nUnexpected wide character from input_common_readch(): "
                         \o ToString(u) \o " / 0x" \o FmtHexLower(u) \o "\n"))
           /\ pc' = "elapsed"
       ELSE
           /\ pc' = "elapsed"
           /\ UNCHANGED out
    /\ UNCHANGED <<keep_running, exit_recent_chars, key_recent_chars, continuous_mode,
                   first_char_seen, prev_tstamp, table, char_signed,
                   requests, exit_calls, key_calls, signals>>

\* A read whose caller tests keep_running again when the read returns and
\* leaves the loop without handling the unit if the flag was cleared meanwhile.
ReadUnitStopsOnFlag(u, gap) ==
    /\ pc = "read"
    /\ wc' = u
    /\ clock' = clock + gap
    /\ delivered' = Append(delivered, u)
    /\ IF u = WEOF \/ ~keep_running THEN
           /\ pc' = "done"
           /\ UNCHANGED out
       ELSE IF u > 255 THEN
           /\ out' = Append(out, Item("unexpected",
                         "\nUnexpected wide character from input_common_readch(): "
                         \o ToString(u) \o " / 0x" \o FmtHexLower(u) \o "\n"))
           /\ pc' = "done"
       ELSE
           /\ pc' = "elapsed"
           /\ UNCHANGED out
    /\ UNCHANGED <<keep_running, exit_recent_chars, key_recent_chars, continuous_mode,
                   first_char_seen, prev_tstamp, table, char_signed,
                   requests, exit_calls, key_calls, signals>>

\* Lines 126-133: input_common_readch returns unit u after gap microseconds;
\* WEOF and a wide unit end the loop.
ReadUnit(u, gap) ==
    /\ pc = "read"
    /\ wc' = u
    /\ clock' = clock + gap
    /\ delivered' = Append(delivered, u)
    /\ IF u = WEOF THEN
           /\ pc' = "done"
           /\ UNCHANGED out
       ELSE IF u > 255 THEN
           /\ out' = Append(out, Item("unexpected",
                         "\nUnexpected wide character from input_common_readch(): "
                         \o ToString(u) \o " / 0x" \o FmtHexLower(u) \o "\n"))
           /\ pc' = "done"
       ELSE
           /\ pc' = "elapsed"
           /\ UNCHANGED out
    /\ UNCHANGED <<keep_running, exit_recent_chars, key_recent_chars, continuous_mode,
                   first_char_seen, prev_tstamp, table, char_signed,
                   requests, exit_calls, key_calls, signals>>

\* A timing step that empties the matcher's window when a new burst begins.
ElapsedStepResetsWindow ==
    /\ pc = "elapsed"
    /\ out' = out \o output_elapsed_time(DeltaTstampUs(clock, prev_tstamp), first_char_seen)
    /\ prev_tstamp' = clock
    /\ key_recent_chars' = IF DeltaTstampUs(clock, prev_tstamp) >= BurstGap
                           THEN [i \in 1..KeyWindow |-> 0]
                           ELSE key_recent_chars
    /\ pc' = "info"
    /\ UNCHANGED <<keep_running, exit_recent_chars, continuous_mode,
                   first_char_seen, wc, table, char_signed, clock,
                   requests, delivered, exit_calls, key_calls, signals>>

\* Line 136: prev_tstamp = output_elapsed_time(prev_tstamp, first_char_seen).
ElapsedStep ==
    /\ pc = "elapsed"
    /\ out' = out \o output_elapsed_time(DeltaTstampUs(clock, prev_tstamp), first_char_seen)
    /\ prev_tstamp' = clock
    /\ pc' = "info"
    /\ UNCHANGED <<keep_running, exit_recent_chars, key_recent_chars, continuous_mode,
                   first_char_seen, wc, table, char_signed, clock,
                   requests, delivered, exit_calls, key_calls, signals>>

\* A loop body without the call of output_matching_key_name.
InfoStepSkipsMatch ==
    /\ pc = "info"
    /\ out' = out \o output_info_about_char(wc)
    /\ pc' = "exit"
    /\ UNCHANGED <<keep_running, exit_recent_chars, key_recent_chars, continuous_mode,
                   first_char_seen, prev_tstamp, wc, table, char_signed, clock,
                   requests, delivered, exit_calls, key_calls, signals>>

\* Line 137: output_info_about_char(c).
InfoStep ==
    /\ pc = "info"
    /\ out' = out \o output_info_about_char(wc)
    /\ pc' = "match"
    /\ UNCHANGED <<keep_running, exit_recent_chars, key_recent_chars, continuous_mode,
                   first_char_seen, prev_tstamp, wc, table, char_signed, clock,
                   requests, delivered, exit_calls, key_calls, signals>>

\* key_name(c) called on the window rc: the new window, the name, the lookups.
KeyNameCall(rc, c) ==
    LET shifted == KeyNameShift(rc, c)
    IN  [window |-> shifted,
         ret |-> key_name(shifted),
         lookups |-> KeyNameLookups(shifted, KeyWindow - 1)]

\* Line 138 and lines 97-103: output_matching_key_name(c).
MatchStep ==
    /\ pc = "match"
    /\ LET call == KeyNameCall(key_recent_chars, wc)
       IN  /\ key_recent_chars' = call.window
           /\ key_calls' = Append(key_calls,
                                  [c |-> wc, ret |-> call.ret, lookups |-> call.lookups])
           /\ out' = IF call.ret # NoName
                     THEN Append(out, Item("name", "Sequence matches bind key name \""
                                                   \o call.ret \o "\"\n"))
                     ELSE out
    /\ pc' = "exit"
    /\ UNCHANGED <<keep_running, exit_recent_chars, continuous_mode,
                   first_char_seen, prev_tstamp, wc, table, char_signed, clock,
                   requests, delivered, exit_calls, signals>>

\* should_exit(c) called on the window rc: the new window and the return value.
ShouldExitCall(rc, c) ==
    LET shifted == ShouldExitShift(rc, c)
    IN  [window |-> shifted, ret |-> ShouldExitCompare(shifted)]

\* An exit-phrase test that prints the notice and goes on looping (no break).
ExitStepNoBreak ==
    /\ pc = "exit"
    /\ LET call == ShouldExitCall(exit_recent_chars, wc)
       IN  /\ exit_recent_chars' = call.window
           /\ exit_calls' = Append(exit_calls, [c |-> wc, ret |-> call.ret])
           /\ out' = IF call.ret
                     THEN Append(out, Item("exiting", "\nExiting at your request.\n"))
                     ELSE out
    /\ first_char_seen' = TRUE
    /\ pc' = "top"
    /\ UNCHANGED <<keep_running, key_recent_chars, continuous_mode,
                   prev_tstamp, wc, table, char_signed, clock,
                   requests, delivered, key_calls, signals>>

\* An exit-phrase test that clears keep_running before it leaves the loop.
ExitStepClearsFlag ==
    /\ pc = "exit"
    /\ LET call == ShouldExitCall(exit_recent_chars, wc)
       IN  /\ exit_recent_chars' = call.window
           /\ exit_calls' = Append(exit_calls, [c |-> wc, ret |-> call.ret])
           /\ IF call.ret
              THEN /\ out' = Append(out, Item("exiting", "\nExiting at your request.\n"))
                   /\ pc' = "done"
                   /\ keep_running' = FALSE
                   /\ UNCHANGED first_char_seen
              ELSE /\ first_char_seen' = TRUE
                   /\ pc' = "top"
                   /\ UNCHANGED <<out, keep_running>>
    /\ UNCHANGED <<key_recent_chars, continuous_mode,
                   prev_tstamp, wc, table, char_signed, clock,
                   requests, delivered, key_calls, signals>>

\* Lines 140-145: the exit-phrase test, the notice and break, or first_char_seen.
ExitStep ==
    /\ pc = "exit"
    /\ LET call == ShouldExitCall(exit_recent_chars, wc)
       IN  /\ exit_recent_chars' = call.window
           /\ exit_calls' = Append(exit_calls, [c |-> wc, ret |-> call.ret])
           /\ IF call.ret
              THEN /\ out' = Append(out, Item("exiting", "\nExiting at your request.\n"))
                   /\ pc' = "done"
                   /\ UNCHANGED first_char_seen
              ELSE /\ first_char_seen' = TRUE
                   /\ pc' = "top"
                   /\ UNCHANGED out
    /\ UNCHANGED <<keep_running, key_recent_chars, continuous_mode,
                   prev_tstamp, wc, table, char_signed, clock,
                   requests, delivered, key_calls, signals>>

\* ----------------------------------------------------------- signal_handler

StoppingSignals == {SIGINT, SIGTERM, SIGABRT, SIGSEGV}

\* A handler whose test leaves out SIGSEGV.
signal_handler_without_segv(signo) ==
    /\ out' = Append(out, Item("signal", "\nSignal #" \o ToString(signo) \o " ("
                                         \o sig2wcs(signo) \o ") received\n\n"))
    /\ keep_running' = IF signo \in {SIGINT, SIGTERM, SIGABRT} THEN FALSE ELSE keep_running
    /\ signals' = Append(signals, signo)
    /\ UNCHANGED <<exit_recent_chars, key_recent_chars, continuous_mode,
                   first_char_seen, prev_tstamp, wc, pc, table, char_signed, clock,
                   requests, delivered, exit_calls, key_calls>>

\* A handler that clears the flag whatever the signal.
signal_handler_any_signal_stops(signo) ==
    /\ out' = Append(out, Item("signal", "\nSignal #" \o ToString(signo) \o " ("
                                         \o sig2wcs(signo) \o ") received\n\n"))
    /\ keep_running' = FALSE
    /\ signals' = Append(signals, signo)
    /\ UNCHANGED <<exit_recent_chars, key_recent_chars, continuous_mode,
                   first_char_seen, prev_tstamp, wc, pc, table, char_signed, clock,
                   requests, delivered, exit_calls, key_calls>>

\* Lines 151-156.
signal_handler(signo) ==
    /\ out' = Append(out, Item("signal", "\nSignal #" \o ToString(signo) \o " ("
                                         \o sig2wcs(signo) \o ") received\n\n"))
    /\ keep_running' = IF signo \in StoppingSignals THEN FALSE ELSE keep_running
    /\ signals' = Append(signals, signo)
    /\ UNCHANGED <<exit_recent_chars, key_recent_chars, continuous_mode,
                   first_char_seen, prev_tstamp, wc, pc, table, char_signed, clock,
                   requests, delivered, exit_calls, key_calls>>

\* A signal arriving while process_input runs.
SignalDuringSession(signo) ==
    /\ pc # "done"
    /\ Len(signals) < MaxSignals
    /\ signal_handler(signo)

\* ------------------------------------------------- the session, general

Units == {27, 79, 255, WEOF, 256}
Gaps == {50000, 250000}
SessionSignals == {SIGINT, SIGHUP}

Init == InitWith(BOOLEAN, {TableF1}, {TRUE})

Next ==
    \/ LoopTest
    \/ \E u \in Units, gap \in Gaps : Len(delivered) < MaxReads /\ ReadUnit(u, gap)
    \/ ElapsedStep
    \/ InfoStep
    \/ MatchStep
    \/ ExitStep
    \/ \E signo \in SessionSignals : SignalDuringSession(signo)

Spec == Init /\ [][Next]_vars

\* ------------------------------------------ the session, arrival times

\* One byte value, every gap around the two thresholds.
TimingUnits == {65, WEOF}
TimingGaps == {5007, 50000, 199999, 200000, 250000, 999999, 1000000, 2000000}

NextTiming ==
    \/ LoopTest
    \/ \E u \in TimingUnits, gap \in TimingGaps :
          Len(delivered) < MaxReads /\ ReadUnit(u, gap)
    \/ ElapsedStep
    \/ InfoStep
    \/ MatchStep
    \/ ExitStep
    \/ SignalDuringSession(SIGHUP)

SpecTiming == InitWith({TRUE}, {TableF1}, {TRUE}) /\ [][NextTiming]_vars

\* ------------------------------------------------ the session, signals

\* One byte value and one gap (a quarter of BurstGap), six signals at every
\* point of the loop.
SignalUnits == {65, WEOF}
SignalGap == BurstGap \div 4
SignalSet == {SIGHUP, SIGINT, SIGABRT, SIGSEGV, SIGTERM, SIGWINCH}

NextSignal ==
    \/ LoopTest
    \/ \E u \in SignalUnits : Len(delivered) < MaxReads /\ ReadUnit(u, SignalGap)
    \/ ElapsedStep
    \/ InfoStep
    \/ MatchStep
    \/ ExitStep
    \/ \E signo \in SignalSet : SignalDuringSession(signo)

SpecSignal == Init /\ [][NextSignal]_vars

\* --------------------------------------- the session, "hello" then "exit"

Hello == <<104, 101, 108, 108, 111, 101, 120, 105, 116>>

\* What the input source may return next: the next byte of Hello, or the
\* end of the stream.
HelloNext ==
    IF Len(delivered) < Len(Hello) /\ delivered = SubSeq(Hello, 1, Len(delivered))
    THEN {Hello[Len(delivered) + 1], WEOF}
    ELSE {WEOF}

NextHello ==
    \/ LoopTest
    \/ \E u \in HelloNext : ReadUnit(u, SignalGap)
    \/ ElapsedStep
    \/ InfoStep
    \/ MatchStep
    \/ ExitStep
    \/ \E signo \in SessionSignals : SignalDuringSession(signo)

SpecHello == Init /\ [][NextHello]_vars

\* ------------------------------------------------- should_exit on its own

\* e x i t q u z E and the zero the window starts with.
ExitAlphabet == {101, 120, 105, 116, 113, 117, 122, 69, 0}

ShouldExitPush(c) ==
    /\ Len(exit_calls) < MaxExitPush
    /\ LET call == ShouldExitCall(exit_recent_chars, c)
       IN  /\ exit_recent_chars' = call.window
           /\ exit_calls' = Append(exit_calls, [c |-> c, ret |-> call.ret])
    /\ UNCHANGED <<keep_running, key_recent_chars, continuous_mode, first_char_seen,
                   prev_tstamp, wc, pc, table, char_signed, clock, out,
                   requests, delivered, key_calls, signals>>

NextExit == \E c \in ExitAlphabet : ShouldExitPush(c)

SpecExit == InitWith({FALSE}, {TableF1}, {TRUE}) /\ [][NextExit]_vars

\* ---------------------------------------------------- key_name on its own

TableUp8 == <<EntryUp8>>
TableLong == <<EntryLong>>
KeyTables == {<<>>, TableF1, TableOF1, TableUp8, TableLong}

\* 'A' and the bytes the table's sequences are made of.
KeyAlphabet ==
    {65} \cup UNION {{table[i].seq[j] : j \in 1..Len(table[i].seq)} : i \in 1..Len(table)}

KeyNamePush(c) ==
    /\ Len(key_calls) < MaxKeyPush
    /\ LET call == KeyNameCall(key_recent_chars, c)
       IN  /\ key_recent_chars' = call.window
           /\ key_calls' = Append(key_calls,
                                  [c |-> c, ret |-> call.ret, lookups |-> call.lookups])
    /\ UNCHANGED <<keep_running, exit_recent_chars, continuous_mode, first_char_seen,
                   prev_tstamp, wc, pc, table, char_signed, clock, out,
                   requests, delivered, exit_calls, signals>>

NextKey == \E c \in KeyAlphabet : KeyNamePush(c)

SpecKey == InitWith({FALSE}, KeyTables, BOOLEAN) /\ [][NextKey]_vars

\* ----------------------------------------- output_info_about_char on its own

\* One call, on any byte.
InfoCall(c) ==
    /\ \A i \in 1..Len(out) : out[i].kind # "numeric"
    /\ wc' = c
    /\ out' = out \o output_info_about_char(c)
    /\ UNCHANGED <<keep_running, exit_recent_chars, key_recent_chars, continuous_mode,
                   first_char_seen, prev_tstamp, pc, table, char_signed, clock,
                   requests, delivered, exit_calls, key_calls, signals>>

NextInfo == \E c \in Byte : InfoCall(c)

SpecInfo == InitWith({FALSE}, {TableF1}, {TRUE}) /\ [][NextInfo]_vars

\* ------------------------------------------------ signal_handler on its own

\* Every signal number setup_and_process_keys installs the handler for
\* (line 168: signo = 1 .. 31).
SignalNumbers == 1..31

HandlerCall(signo) ==
    /\ Len(signals) < MaxHandlerCalls
    /\ signal_handler(signo)

NextHandler == \E signo \in SignalNumbers : HandlerCall(signo)

SpecHandler == InitWith({FALSE}, {TableF1}, {TRUE}) /\ [][NextHandler]_vars

\* =================================================================== claims

\* The bytes pushed into key_name so far, and the eight most recent of them
\* after the k-th push (zeros where fewer than eight were pushed).
KeyPushed == [i \in 1..Len(key_calls) |-> key_calls[i].c]
KeyReturned == [i \in 1..Len(key_calls) |-> key_calls[i].ret]
KeyWindowAfter(k) ==
    SubSeq(<<0, 0, 0, 0, 0, 0, 0, 0>> \o SubSeq(KeyPushed, 1, k), k + 1, k + KeyWindow)
SuffixOf(w, n) == SubSeq(w, Len(w) - n + 1, Len(w))
TableHas(seq) == \E i \in 1..Len(table) : table[i].seq = seq
TableName(seq) == (CHOOSE e \in {table[i] : i \in 1..Len(table)} : e.seq = seq).name

\* C1: after every push, key_name returns the name of the shortest suffix
\* (length 1 to 8) of the eight most recent bytes that the table contains, and
\* no name only when the table contains none of the eight suffixes; with the
\* table {1B 4F -> F1}, pushing 41, 1B, 4F returns nothing, nothing, F1; with
\* the table {4F -> O, 1B 4F -> F1}, pushing 1B, 4F returns O on the second.
C1_ShortestSuffixWins ==
    /\ \A k \in 1..Len(key_calls) :
          LET w == KeyWindowAfter(k)
              lens == {n \in 1..KeyWindow : TableHas(SuffixOf(w, n))}
          IN  IF lens = {} THEN key_calls[k].ret = NoName
              ELSE \E n \in lens :
                      /\ \A m \in lens : n <= m
                      /\ key_calls[k].ret = TableName(SuffixOf(w, n))
    /\ (table = TableF1 /\ KeyPushed = <<65, 27, 79>>)
          => KeyReturned = <<NoName, NoName, "F1">>
    /\ (table = TableOF1 /\ KeyPushed = <<27, 79>>)
          => KeyReturned[2] = "O"

\* C1 witness: both O and F1 are in the table, 1B 4F was pushed, and the
\* shorter suffix gave the name.
C1_Witness ==
    /\ table = TableOF1
    /\ KeyPushed = <<27, 79>>
    /\ TableHas(SuffixOf(KeyWindowAfter(2), 2))
    /\ key_calls[2].ret = "O"

\* The bytes pushed into should_exit so far and what each call returned.
ExitPushed == [i \in 1..Len(exit_calls) |-> exit_calls[i].c]
ExitReturned == [i \in 1..Len(exit_calls) |-> exit_calls[i].ret]
Phrases == {<<101, 120, 105, 116>>, <<113, 117, 105, 116>>}

\* C2: the k-th call of should_exit returns true exactly when the four bytes
\* pushed by calls k-3 .. k are e,x,i,t or q,u,i,t; the three calls before
\* such a fourth push returned false.
C2_TrueIffLastFourArePhrase ==
    \A k \in 1..Len(exit_calls) :
        /\ exit_calls[k].ret <=> (k >= 4 /\ SubSeq(ExitPushed, k - 3, k) \in Phrases)
        /\ (k >= 4 /\ SubSeq(ExitPushed, k - 3, k) \in Phrases)
              => SubSeq(ExitReturned, k - 3, k) = <<FALSE, FALSE, FALSE, TRUE>>

\* C2 witness: "exit" arrived after another byte and the fifth call returned true.
C2_Witness ==
    /\ ExitPushed = <<122, 101, 120, 105, 116>>
    /\ ExitReturned = <<FALSE, FALSE, FALSE, FALSE, TRUE>>

\* A phrase with byte z inserted after its pos-th letter.
Interrupted(phrase, pos, z) == SubSeq(phrase, 1, pos) \o <<z>> \o SubSeq(phrase, pos + 1, 4)
\* Whether seq holds phrase as four consecutive bytes.
HoldsPhrase(seq) == \E i \in 1..(Len(seq) - 3) : SubSeq(seq, i, i + 3) \in Phrases
LastFive(f) == SubSeq(f, Len(f) - 4, Len(f))
NoneTrue(rets) == \A i \in 1..Len(rets) : ~rets[i]

\* C3 as stated: whenever the last five pushes are a phrase with any byte z
\* inserted between two of its letters (z being the byte pushed at that
\* place), none of those five calls returned true.
C3_AnyInsertedByteBreaks ==
    Len(exit_calls) >= 5 =>
        \A phrase \in Phrases, pos \in 1..3 :
            LET z == LastFive(ExitPushed)[pos + 1]
            IN  LastFive(ExitPushed) = Interrupted(phrase, pos, z)
                    => NoneTrue(LastFive(ExitReturned))

\* C3 amended: the same, for every inserted byte that leaves no exit phrase in
\* the five bytes (the inserted byte is not a copy of the first letter put
\* right after it, nor a 't' put right before the final 't').
C3_InsertedByteBreaksUnlessPhraseRemains ==
    Len(exit_calls) >= 5 =>
        \A phrase \in Phrases, pos \in 1..3 :
            LET z == LastFive(ExitPushed)[pos + 1]
            IN  (/\ LastFive(ExitPushed) = Interrupted(phrase, pos, z)
                 /\ ~HoldsPhrase(Interrupted(phrase, pos, z)))
                    => NoneTrue(LastFive(ExitReturned))

\* C3 witness: e,x,z,i,t was pushed and no call returned true.
C3_Witness ==
    /\ ExitPushed = <<101, 120, 122, 105, 116>>
    /\ NoneTrue(ExitReturned)

\* How many items of the given kinds standard output holds.
CountOut(kinds) == Cardinality({i \in 1..Len(out) : out[i].kind \in kinds})
\* The per-byte reports printed so far: a report begins with its elapsed-time
\* field and ends with the line end of the description.
ReportsBegun == CountOut({"elapsed_blank", "elapsed_ms"})
ReportsEnded == CountOut({"eol"})
HelloExit == <<104, 101, 108, 108, 111, 101, 120, 105, 116>>

\* C4: when the source has delivered h,e,l,l,o,e,x,i,t and no signal arrived,
\* then once the ninth byte went through should_exit the loop is TERMINATED,
\* nine reports and nine read requests were made, and the termination notice
\* is the last thing printed; and without a signal no termination notice is
\* printed before those nine reports.
C4_HelloExitNineReports ==
    /\ (delivered = HelloExit /\ signals = <<>> /\ Len(exit_calls) = 9) =>
          /\ pc = "done"
          /\ ReportsBegun = 9 /\ ReportsEnded = 9 /\ CountOut({"numeric"}) = 9
          /\ Len(requests) = 9
          /\ CountOut({"exiting"}) = 1
          /\ out[Len(out)].kind = "exiting"
          /\ CountOut({"unexpected"}) = 0
    /\ (signals = <<>> /\ CountOut({"exiting"}) > 0) =>
          (delivered = HelloExit /\ ReportsEnded = 9)

\* C4 witness: the nine bytes were delivered without a signal and the loop ended
\* on the termination notice.
C4_Witness ==
    /\ delivered = HelloExit
    /\ signals = <<>>
    /\ pc = "done"
    /\ out[Len(out)].kind = "exiting"

\* The five rules of the classifier and the rule each byte value falls under.
Rules == {"ctrl", "space", "del", "nonascii", "printable"}
RuleOf(c) ==
    CASE c \in 0..31 -> "ctrl"
      [] c = 32 -> "space"
      [] c \in 33..126 -> "printable"
      [] c = 127 -> "del"
      [] c \in 128..255 -> "nonascii"
InfoCalled == CountOut({"numeric"}) > 0

\* C5: for each of the 256 byte values, output_info_about_char prints a complete
\* line in which exactly one of the five rules was applied: control for 0-31,
\* space for 32, printable for 33-126, del for 127, non-ASCII for 128-255.
C5_ExactlyOneRulePerByte ==
    InfoCalled =>
        /\ wc \in Byte
        /\ CountOut(Rules) = 1
        /\ CountOut({RuleOf(wc)}) = 1
        /\ out[Len(out)].kind = "eol"

\* C5 witness: the classifier was called on 127 and applied the del rule.
C5_Witness ==
    /\ InfoCalled
    /\ wc = 127
    /\ CountOut({"del"}) = 1

\* The step in which output_elapsed_time runs, the elapsed time it measures
\* (before the step), and what the step appended to standard output.
TimingRuns == pc = "elapsed" /\ pc' = "info"
Elapsed == clock - prev_tstamp
Appended == SubSeq(out', Len(out) + 1, Len(out'))
SeparatorPrinted == Len(Appended) = 2 /\ Appended[1] = Item("separator", "\n")

\* C6: output_elapsed_time prints a blank-line separator, and prints it before
\* the elapsed-time field, exactly when the elapsed time is at least 200000
\* microseconds and a report of an earlier byte was already printed; the first
\* byte gets none although its elapsed time is above the threshold; a byte
\* 50000 after the previous one gets none, a byte 250000 after it gets one.
C6_SeparatorIffBurstGapAndNotFirst ==
    [][TimingRuns =>
          /\ SeparatorPrinted <=> (Elapsed >= 200000 /\ ReportsEnded >= 1)
          /\ ~SeparatorPrinted => Len(Appended) = 1
          /\ Appended[Len(Appended)].kind \in {"elapsed_blank", "elapsed_ms"}
          /\ ReportsEnded = 0 => (Elapsed >= 200000 /\ ~SeparatorPrinted)
          /\ (ReportsEnded >= 1 /\ Elapsed = 50000) => ~SeparatorPrinted
          /\ (ReportsEnded >= 1 /\ Elapsed = 250000) => SeparatorPrinted
      ]_vars

\* C6 witness: the second byte's elapsed-time field is printed, with a
\* separator right before it, after a first report that began without one.
C6_Witness ==
    /\ pc = "info"
    /\ ReportsEnded = 1
    /\ out[2].kind # "separator"
    /\ out[Len(out) - 1].kind = "separator"
    /\ out[Len(out)].kind = "elapsed_ms"

\* The numeric field for an elapsed time below one second, digit by digit.
DigitAt(n, place) == ToString((n \div place) % 10)
NumericField(e) ==
    LET ms == e \div 1000
        us == e % 1000
    IN  "(" \o (IF ms >= 100 THEN DigitAt(ms, 100) ELSE " ")
            \o (IF ms >= 10 THEN DigitAt(ms, 10) ELSE " ")
            \o DigitAt(ms, 1) \o "."
            \o DigitAt(us, 100) \o DigitAt(us, 10) \o DigitAt(us, 1) \o " ms)  "

\* C7: the elapsed-time field is blank padding exactly when the elapsed time is
\* at least 1000000 microseconds, which it is for the first byte; otherwise it
\* is milliseconds.microseconds, the microseconds in three digits: 50000
\* renders as 50.000, 2000000 as blank padding.
C7_BlankIffLongPause ==
    [][TimingRuns =>
          LET field == Appended[Len(Appended)]
          IN  /\ field.kind = "elapsed_blank" <=> Elapsed >= 1000000
              /\ field.kind = "elapsed_blank" => field.text = "              "
              /\ field.kind # "elapsed_blank" =>
                    (field.kind = "elapsed_ms" /\ field.text = NumericField(Elapsed))
              /\ ReportsEnded = 0 => field.kind = "elapsed_blank"
              /\ Elapsed = 50000 => field.text = "( 50.000 ms)  "
              /\ Elapsed = 5007 => field.text = "(  5.007 ms)  "
              /\ Elapsed = 999999 => field.text = "(999.999 ms)  "
              /\ Elapsed = 2000000 => field.kind = "elapsed_blank"
      ]_vars

\* C7 witness: a byte arrived 50000 microseconds after the first one and its
\* field reads 50.000.
C7_Witness ==
    /\ pc = "info"
    /\ ReportsEnded = 1
    /\ out[2].kind = "elapsed_blank"
    /\ out[Len(out)] = Item("elapsed_ms", "( 50.000 ms)  ")

\* The unit the last read returned, and the step in which a read returns.
LastDelivered == delivered[Len(delivered)]
ReadReturns == Len(delivered') = Len(delivered) + 1
Returned == delivered'[Len(delivered')]
\* The loop's own timing state and the two windows are as they were.
TimingAndWindowsKept ==
    /\ prev_tstamp' = prev_tstamp
    /\ first_char_seen' = first_char_seen
    /\ exit_recent_chars' = exit_recent_chars
    /\ key_recent_chars' = key_recent_chars
    /\ exit_calls' = exit_calls
    /\ key_calls' = key_calls
\* The bytes (units 0..255) among the units delivered so far.
BytesDelivered == Cardinality({i \in 1..Len(delivered) : delivered[i] \in Byte})

\* C8: the step in which the read returns the end-of-stream marker takes the
\* loop to TERMINATED, prints nothing and leaves the timing state and both
\* windows alone; from then on nothing is printed for that unit: the reports
\* are those of the bytes before it, with no error report and no termination
\* notice; after a marker as the first unit there is no report.
C8_EndOfStreamTerminatesSilently ==
    /\ [][(ReadReturns /\ Returned = WEOF) =>
             (pc' = "done" /\ out' = out /\ keep_running' = keep_running
              /\ TimingAndWindowsKept)]_vars
    /\ [](delivered # <<>> /\ LastDelivered = WEOF =>
             /\ pc = "done"
             /\ ReportsBegun = Len(delivered) - 1
             /\ ReportsEnded = Len(delivered) - 1
             /\ Len(key_calls) = Len(delivered) - 1
             /\ Len(exit_calls) = Len(delivered) - 1
             /\ CountOut({"unexpected", "exiting"}) = 0
             /\ (Len(delivered) = 1 => CountOut({"numeric"}) = 0))

\* C8 witness: the marker arrived after one byte was reported, and the loop
\* is TERMINATED with that one report.
C8_Witness ==
    /\ Len(delivered) = 2
    /\ LastDelivered = WEOF
    /\ pc = "done"
    /\ ReportsEnded = 1

\* C9: the step in which the read returns a unit above 255 prints the
\* unexpected-input error with the unit's value and takes the loop to
\* TERMINATED, leaving the timing state and both windows alone; the unit gets
\* no report, is pushed into neither window and no termination notice follows.
C9_WideUnitReportedAndTerminates ==
    /\ [][(ReadReturns /\ Returned > 255) =>
             /\ pc' = "done"
             /\ Len(out') = Len(out) + 1
             /\ out'[Len(out')].kind = "unexpected"
             /\ (Returned = 256 => out'[Len(out')].text =
                   "\nUnexpected wide character from input_common_readch(): 256 / 0x100\n")
             /\ keep_running' = keep_running
             /\ TimingAndWindowsKept]_vars
    /\ [](delivered # <<>> /\ LastDelivered > 255 =>
             /\ pc = "done"
             /\ CountOut({"unexpected"}) = 1
             /\ out[Len(out)].kind = "unexpected"
             /\ ReportsBegun = Len(delivered) - 1
             /\ ReportsEnded = Len(delivered) - 1
             /\ Len(key_calls) = Len(delivered) - 1
             /\ Len(exit_calls) = Len(delivered) - 1
             /\ CountOut({"exiting"}) = 0)

\* C9 witness: a unit of 256 arrived after the byte 255 was reported; the error
\* is the last thing printed and the loop is TERMINATED.
C9_Witness ==
    /\ delivered = <<255, 256>>
    /\ pc = "done"
    /\ ReportsEnded = 1
    /\ out[Len(out)].kind = "unexpected"

\* The step in which a signal is delivered, the signal, and the four causes
\* that stop the loop: interrupt 2, abort 6, segmentation fault 11, terminate 15.
SignalArrives == Len(signals') = Len(signals) + 1
Arrived == signals'[Len(signals')]
StopCauses == {2, 6, 11, 15}
OnlyReportedSignals == \A i \in 1..Len(signals) : signals[i] \notin StopCauses

\* C10: a delivered signal clears keep_running exactly when it is one of the
\* four stop causes; any signal prints one notice and touches nothing else of
\* the loop; while only other signals were delivered the flag stays set, the
\* loop test goes on to the next read, and the loop ends only on a unit that
\* ends it (the end-of-stream marker, a wide unit) or on an exit phrase.
C10_OnlyFourCausesClearTheFlag ==
    /\ [][SignalArrives =>
             /\ keep_running' = (keep_running /\ Arrived \notin StopCauses)
             /\ Len(out') = Len(out) + 1
             /\ out'[Len(out')].kind = "signal"
             /\ SubSeq(out', 1, Len(out)) = out
             /\ pc' = pc /\ wc' = wc /\ delivered' = delivered /\ requests' = requests
             /\ TimingAndWindowsKept]_vars
    /\ [][(pc = "top" /\ OnlyReportedSignals /\ ~SignalArrives) => pc' = "read"]_vars
    /\ [](OnlyReportedSignals =>
             /\ keep_running
             /\ (pc = "done" =>
                    \/ (delivered # <<>> /\ LastDelivered \notin Byte)
                    \/ (exit_calls # <<>> /\ exit_calls[Len(exit_calls)].ret)))

\* C10 witness: SIGHUP was delivered before the first read returned, the flag
\* is still set, and a byte was read and reported after the notice.
C10_Witness ==
    /\ signals = <<SIGHUP>>
    /\ keep_running
    /\ out[2].kind = "signal"
    /\ ReportsEnded = 1
    /\ pc = "read"

\* C11: the flag is tested at the top of every iteration, before the read is
\* requested: a step of the loop from the top with the flag cleared goes to
\* TERMINATED, requests no unit and prints nothing; a read is only ever
\* requested by a step from the top that found the flag set.
C11_FlagTestedBeforeEveryRead ==
    /\ [][(pc = "top" /\ ~keep_running /\ ~SignalArrives) =>
             (pc' = "done" /\ requests' = requests /\ delivered' = delivered
              /\ out' = out /\ TimingAndWindowsKept)]_vars
    /\ [][requests' # requests =>
             (pc = "top" /\ keep_running /\ pc' = "read"
              /\ Len(requests') = Len(requests) + 1)]_vars
    /\ [](Len(requests) \in {Len(delivered), Len(delivered) + 1})

\* C11 witness: a stop signal came while the first byte was being processed;
\* the loop finished that byte, found the flag cleared at the top and is
\* TERMINATED after one request and one report.
C11_Witness ==
    /\ pc = "done"
    /\ ~keep_running
    /\ delivered = <<65>>
    /\ Len(requests) = 1
    /\ ReportsEnded = 1
    /\ Len(exit_calls) = 1

\* input_common_readch is outside this file.  Its argument is read as
\* "give up after a short wait": the first call of a session passes false and
\* the first read of a session waits for a key.
IsBlockingRequest(timed) == ~timed

\* C12 as stated: the first read is requested blocking and every later read
\* in continuous mode is requested non-blocking.
C12_LaterContinuousReadsNonBlocking ==
    \A i \in 1..Len(requests) :
        /\ i = 1 => IsBlockingRequest(requests[i])
        /\ (i > 1 /\ continuous_mode) => ~IsBlockingRequest(requests[i])

\* C12: the first read of a session is requested blocking; every later read
\* is requested blocking in continuous mode and non-blocking otherwise.
C12_BlockingIffFirstOrContinuous ==
    \A i \in 1..Len(requests) :
        IsBlockingRequest(requests[i]) <=> (i = 1 \/ continuous_mode)

\* C12 witness: a continuous-mode session has requested its third read.
C12_Witness ==
    /\ continuous_mode
    /\ Len(requests) = 3
    /\ Len(delivered) = 2
    /\ \A i \in 1..3 : IsBlockingRequest(requests[i])

\* --------------------------------- the session, a function key then "quit"

\* ESC O (the sequence named F1), then q u i t; the table also names "it", so
\* the byte that completes the phrase completes a named sequence too.
EntryIt == [seq |-> <<105, 116>>, name |-> "it"]
TableF1It == <<EntryF1, EntryIt>>
Typed == <<27, 79, 113, 117, 105, 116>>
TypedGap == BurstGap

\* What the input source may return next: the next byte of Typed, the end of
\* the stream, or a unit above 255.
TypedNext ==
    IF Len(delivered) < Len(Typed) /\ delivered = SubSeq(Typed, 1, Len(delivered))
    THEN {Typed[Len(delivered) + 1], WEOF, 256}
    ELSE {WEOF}

NextTyped ==
    \/ LoopTest
    \/ \E u \in TypedNext : ReadUnit(u, TypedGap)
    \/ ElapsedStep
    \/ InfoStep
    \/ MatchStep
    \/ ExitStep
    \/ \E signo \in SessionSignals : SignalDuringSession(signo)

SpecTyped == InitWith(BOOLEAN, {TableF1It}, {TRUE}) /\ [][NextTyped]_vars

\* The output without the banner and the signal notices.
IsReportItem(item) == item.kind \notin {"banner", "signal"}
Reported == SelectSeq(out, IsReportItem)
ElapsedKinds == {"elapsed_blank", "elapsed_ms"}

\* The kinds that may follow an item of kind k within the loop's output.
MayFollow(k) ==
    CASE k = "separator" -> ElapsedKinds
      [] k \in ElapsedKinds -> {"numeric"}
      [] k = "numeric" -> Rules
      [] k = "ctrl" -> {"alias", "eol"}
      [] k \in Rules \ {"ctrl"} -> {"eol"}
      [] k = "alias" -> {"eol"}
      [] k = "eol" -> {"name", "exiting", "separator", "unexpected"} \cup ElapsedKinds
      [] k = "name" -> {"exiting", "separator", "unexpected"} \cup ElapsedKinds
      [] OTHER -> {}

NamesPrinted == CountOut({"name"})
NamesFound == Cardinality({k \in 1..Len(key_calls) : key_calls[k].ret # NoName})
DeliveredBytes == SelectSeq(delivered, LAMBDA u : u \in Byte)

\* How many times each of the four parts has run for the byte in hand, by the
\* place the loop is at: <<timing, classifier, matcher, exit detector>>.
PartsRun ==
    LET n == BytesDelivered
    IN  CASE pc = "elapsed" -> <<n - 1, n - 1, n - 1, n - 1>>
          [] pc = "info" -> <<n, n - 1, n - 1, n - 1>>
          [] pc = "match" -> <<n, n, n - 1, n - 1>>
          [] pc = "exit" -> <<n, n, n, n - 1>>
          [] OTHER -> <<n, n, n, n>>

\* C13: for every accepted byte the timing tracker, the classifier, the
\* matcher and the exit detector run once each, in that order; the output of
\* a byte is the elapsed field, the description, then the matched-name line
\* if any, then the termination notice if any; the byte that completes an
\* exit phrase is fully reported and pushed to the matcher window before the
\* notice, which is the last thing the loop prints.
C13_FourPartsOnceInOrder ==
    /\ <<ReportsBegun, ReportsEnded, Len(key_calls), Len(exit_calls)>> = PartsRun
    /\ \A k \in 1..Len(key_calls) : key_calls[k].c = DeliveredBytes[k]
    /\ \A k \in 1..Len(exit_calls) : exit_calls[k].c = DeliveredBytes[k]
    /\ NamesPrinted = NamesFound
    /\ Reported # <<>> => Reported[1].kind \in ElapsedKinds \cup {"unexpected"}
    /\ \A i \in 1..(Len(Reported) - 1) :
          Reported[i + 1].kind \in MayFollow(Reported[i].kind)
    /\ \A k \in 1..Len(exit_calls) :
          exit_calls[k].ret =>
             /\ k = Len(exit_calls)
             /\ pc = "done"
             /\ Len(key_calls) = k
             /\ ReportsEnded = k
             /\ key_recent_chars[KeyWindow] = exit_calls[k].c
             /\ Reported[Len(Reported)].kind = "exiting"

\* C13 witness: the last byte of "quit" has been reported, matched as the
\* named sequence "it", and followed by the termination notice.
C13_Witness ==
    /\ pc = "done"
    /\ delivered = Typed
    /\ Len(Reported) > 3
    /\ Reported[Len(Reported)].kind = "exiting"
    /\ Reported[Len(Reported) - 1].kind = "name"
    /\ Reported[Len(Reported) - 2].kind = "eol"
    /\ NamesPrinted = 2
    /\ ReportsEnded = Len(Typed)

\* How a terminated loop was left.
ByEndOfStream == delivered # <<>> /\ LastDelivered = WEOF
ByWideUnit == delivered # <<>> /\ LastDelivered > 255
ByExitPhrase == exit_calls # <<>> /\ exit_calls[Len(exit_calls)].ret
ByFlag == ~keep_running /\ ~ByEndOfStream /\ ~ByWideUnit /\ ~ByExitPhrase

\* C14 as stated: whenever the loop is TERMINATED the flag is false.
C14_TerminatedImpliesFlagCleared == pc = "done" => ~keep_running

\* C14: the flag is false exactly when a stopping signal has been delivered;
\* a loop TERMINATED by the exit phrase, the end of the stream or a wide unit
\* leaves the flag as it found it, and a loop TERMINATED with the flag still
\* set was left for one of those three causes.
C14_OnlyStoppingSignalClearsFlag ==
    /\ keep_running <=> OnlyReportedSignals
    /\ (pc = "done" /\ keep_running) =>
          (ByEndOfStream \/ ByWideUnit \/ ByExitPhrase)
    /\ (pc = "done" /\ ~(ByEndOfStream \/ ByWideUnit \/ ByExitPhrase)) => ByFlag

\* C14 witness: the loop was left on the exit phrase and the flag is still set.
C14_Witness ==
    /\ pc = "done"
    /\ ByExitPhrase
    /\ delivered = Typed
    /\ keep_running

\* ------------------------- the session, the same keys at different paces

\* The units of Typed, each after a short gap, a burst gap or a long pause.
PacedGaps == {SignalGap, BurstGap, LongPause}

NextPaced ==
    \/ LoopTest
    \/ \E u \in TypedNext, gap \in PacedGaps : ReadUnit(u, gap)
    \/ ElapsedStep
    \/ InfoStep
    \/ MatchStep
    \/ ExitStep

SpecPaced == InitWith(BOOLEAN, {TableF1It}, {TRUE}) /\ [][NextPaced]_vars

TimingKinds == {"separator"} \cup ElapsedKinds
IsUntimedItem(item) == item.kind \notin TimingKinds
Untimed == SelectSeq(out, IsUntimedItem)

\* What a session prints for the units d from unit i on, apart from the
\* timing items, computed from the units, the table and the two windows alone.
RECURSIVE UntimedFrom(_, _, _, _)
UntimedFrom(d, i, kw, ew) ==
    IF i > Len(d) \/ d[i] = WEOF THEN <<>>
    ELSE IF d[i] > 255 THEN
        <<Item("unexpected", "\nUnexpected wide character from input_common_readch(): "
                             \o ToString(d[i]) \o " / 0x" \o FmtHexLower(d[i]) \o "\n")>>
    ELSE LET kc == KeyNameCall(kw, d[i])
             ec == ShouldExitCall(ew, d[i])
             named == IF kc.ret # NoName
                      THEN <<Item("name", "Sequence matches bind key name \""
                                          \o kc.ret \o "\"\n")>>
                      ELSE <<>>
         IN  output_info_about_char(d[i]) \o named \o
             (IF ec.ret THEN <<Item("exiting", "\nExiting at your request.\n")>>
              ELSE UntimedFrom(d, i + 1, kc.window, ec.window))

UntimedOf(d) ==
    <<Item("banner", "Press a key\n\n")>>
    \o UntimedFrom(d, 1, [i \in 1..KeyWindow |-> 0], [i \in 1..ExitWindow |-> 0])

\* Whether the units d end a session, from the units alone.
EndsSession(d) ==
    /\ d # <<>>
    /\ \/ d[Len(d)] \notin Byte
       \/ /\ Len(d) >= ExitWindow
          /\ SubSeq(d, Len(d) - ExitWindow + 1, Len(d)) \in {ExitPhrase, QuitPhrase}

\* C15: arrival times affect presentation only.  Between iterations, what a
\* session has printed apart from separators and elapsed fields, the names
\* it has matched and whether it has terminated are functions of the units
\* delivered, whatever the gaps between them were; so two sessions fed the
\* same units at different times agree on all three.
C15_TimingAffectsPresentationOnly ==
    pc \in {"top", "read", "done"} =>
       /\ Untimed = UntimedOf(delivered)
       /\ (pc = "done") <=> EndsSession(delivered)
       /\ NamesPrinted = NamesFound

\* C15 witness: ESC, then O after a long pause: the separator and the blank
\* elapsed field were printed and the two bytes still matched F1.
C15_Witness ==
    /\ pc = "top"
    /\ delivered = <<27, 79>>
    /\ CountOut({"separator"}) = 1
    /\ CountOut({"elapsed_blank"}) = 2
    /\ NamesPrinted = 1
    /\ key_calls[2].ret = "F1"

\* The codes the claim lists, with the alias each is given, and the codes for
\* which output_info_about_char prints an alias.
ListedAlias ==
    [c \in {7, 8, 9, 10, 11, 12, 13, 27} |->
        CASE c = 7 -> "\\a" [] c = 8 -> "\\b" [] c = 9 -> "\\t" [] c = 10 -> "\\n"
          [] c = 11 -> "\\v" [] c = 12 -> "\\f" [] c = 13 -> "\\r" [] c = 27 -> "\\e"]
ListedCodes == DOMAIN ListedAlias
HasAlias(items) == \E i \in 1..Len(items) : items[i].kind = "alias"
AliasedCodes == {c \in Byte : HasAlias(output_info_about_char(c))}
AliasPrinted == CountOut({"alias"}) > 0

\* C16 as stated: an alias is printed for exactly the listed codes, which
\* are a set of 9.
C16_NineAliasedCodes ==
    InfoCalled =>
        /\ AliasPrinted <=> wc \in ListedCodes
        /\ Cardinality(AliasedCodes) = 9

\* C16: an alias is printed for exactly 8 codes, 7 8 9 10 11 12 13 and 27,
\* each with its own alias, right after the control notation; no other
\* control code (14 among them) and no byte of 32 or above gets one.
C16_EightAliasedCodes ==
    InfoCalled =>
        /\ AliasPrinted <=> wc \in ListedCodes
        /\ AliasPrinted =>
              /\ wc < 32
              /\ CountOut({"alias"}) = 1
              /\ out[Len(out) - 1] = Item("alias", "   (or " \o ListedAlias[wc] \o ")")
              /\ out[Len(out) - 2].kind = "ctrl"
        /\ AliasedCodes = ListedCodes
        /\ Cardinality(AliasedCodes) = 8
        /\ 14 \notin AliasedCodes

\* C16 witness: the classifier was called on ESC and printed its alias.
C16_Witness ==
    /\ InfoCalled
    /\ wc = 27
    /\ AliasPrinted
    /\ out[Len(out) - 1].text = "   (or \\e)"

\* The kind of the nearest item before (after) position i of the output that
\* is not a signal notice; "none" when there is no such item.
KindBefore(i) ==
    LET S == {j \in 1..(i - 1) : out[j].kind # "signal"}
    IN  IF S = {} THEN "none"
        ELSE out[CHOOSE j \in S : \A k \in S : k <= j].kind
KindAfter(i) ==
    LET S == {j \in (i + 1)..Len(out) : out[j].kind # "signal"}
    IN  IF S = {} THEN "none"
        ELSE out[CHOOSE j \in S : \A k \in S : j <= k].kind

\* C17: a signal notice is never printed between the parts of one per-byte
\* report: not after the elapsed field and before the description, and not
\* after the description and before the matched-name line.
C17_NoticeNeverInsideReport ==
    \A i \in 1..Len(out) :
        out[i].kind = "signal" =>
            /\ KindBefore(i) \notin ElapsedKinds
            /\ ~(KindBefore(i) = "eol" /\ KindAfter(i) = "name")

\* The sequences key_name handed to the lookup on its k-th call, and the bytes
\* received up to that call.
LookupsOf(k) == key_calls[k].lookups
ReceivedUpTo(k) == SubSeq(KeyPushed, 1, k)
TableHasNoZero ==
    \A i \in 1..Len(table) : \A j \in 1..Len(table[i].seq) : table[i].seq[j] # 0

\* C18 as stated: every sequence handed to the lookup is a suffix of the
\* bytes received so far, so none is longer than the number received.
C18_LookupsWithinReceivedBytes ==
    \A k \in 1..Len(key_calls) :
        \A j \in 1..Len(LookupsOf(k)) :
            LET seq == LookupsOf(k)[j]
            IN  /\ Len(seq) \in 1..KeyWindow
                /\ Len(seq) <= k
                /\ seq = SuffixOf(ReceivedUpTo(k), Len(seq))

\* C18: every sequence handed to the lookup is a suffix, of length 1 to 8,
\* of the 8-byte window: the bytes received so far preceded by the initial
\* zero fill.  The j-th lookup of a call is the suffix of length j; the call
\* stops at the first hit and otherwise makes all eight lookups, however few
\* bytes were received.  With a table none of whose sequences contains a
\* zero byte, a name is only ever reported for a suffix of the bytes received.
C18_LookupsAreWindowSuffixes ==
    \A k \in 1..Len(key_calls) :
        LET n == Len(LookupsOf(k))
        IN  /\ n \in 1..KeyWindow
            /\ \A j \in 1..n : LookupsOf(k)[j] = SuffixOf(KeyWindowAfter(k), j)
            /\ key_calls[k].ret = NoName => n = KeyWindow
            /\ key_calls[k].ret # NoName => TableHas(LookupsOf(k)[n])
            /\ (TableHasNoZero /\ key_calls[k].ret # NoName) =>
                  /\ n <= k
                  /\ LookupsOf(k)[n] = SuffixOf(ReceivedUpTo(k), n)

\* C18 witness: one byte was received, nothing matched, and the eighth lookup
\* was made with seven zeros in front of it.
C18_Witness ==
    /\ table = TableF1
    /\ KeyPushed = <<65>>
    /\ key_calls[1].ret = NoName
    /\ Len(LookupsOf(1)) = KeyWindow
    /\ LookupsOf(1)[KeyWindow] = <<0, 0, 0, 0, 0, 0, 0, 65>>

\* A char of the matcher's window read as a byte, and the last four
\* positions of that window as bytes.
AsByte(ch) == (ch + 256) % 256
KeyWindowTail ==
    [i \in 1..ExitWindow |-> AsByte(key_recent_chars[KeyWindow - ExitWindow + i])]

\* C19: wherever the loop is outside the two calls that push the byte in
\* hand (between iterations, in TERMINATED, and up to the matcher's call),
\* the 4-byte exit window holds the same bytes as the last four positions of
\* the 8-byte matcher window; the matcher's window changes only in its own
\* call and the exit window only in should_exit's, so the end of the stream,
\* a wide unit and a signal change neither.
C19_ExitWindowIsMatcherTail ==
    /\ [](pc # "exit" => exit_recent_chars = KeyWindowTail)
    /\ [][key_recent_chars' # key_recent_chars => (pc = "match" /\ pc' = "exit")]_vars
    /\ [][exit_recent_chars' # exit_recent_chars => (pc = "exit" /\ pc' \in {"top", "done"})]_vars

\* C19 witness: FF and ESC were fully processed; the matcher holds FF as the
\* char -1 and the exit window holds it as 255.
C19_Witness ==
    /\ pc = "top"
    /\ delivered = <<255, 27>>
    /\ exit_recent_chars = <<0, 0, 255, 27>>
    /\ key_recent_chars[KeyWindow - 1] = -1
    /\ exit_recent_chars = KeyWindowTail

\* ------------------- the typed session with the loop and the read going on

\* The statements of process_input, which the program goes on executing.
LoopSteps == LoopTest \/ ElapsedStep \/ InfoStep \/ MatchStep \/ ExitStep
ReadReturnsUnit == \E u \in TypedNext : ReadUnit(u, TypedGap)

\* SpecTyped with the loop never stalling between statements and every
\* pending read returning.
SpecTypedFair == SpecTyped /\ WF_vars(LoopSteps) /\ WF_vars(ReadReturnsUnit)

\* The position in the output of the notice of the first stopping signal (the
\* handler clears the flag in the step that prints it), 0 when there is none,
\* and the number of per-byte reports begun and ended after it.
NoticeRank(i) == Cardinality({j \in 1..i : out[j].kind = "signal"})
StopNotices ==
    {i \in 1..Len(out) :
        out[i].kind = "signal" /\ signals[NoticeRank(i)] \in StoppingSignals}
FlagClearedAt ==
    IF StopNotices = {} THEN 0
    ELSE CHOOSE i \in StopNotices : \A j \in StopNotices : i <= j
BegunAfterStop ==
    Cardinality({i \in (FlagClearedAt + 1)..Len(out) : out[i].kind \in ElapsedKinds})
EndedAfterStop ==
    Cardinality({i \in (FlagClearedAt + 1)..Len(out) : out[i].kind = "eol"})

\* C20: after a stopping signal cleared the flag, no new read is requested;
\* the unit of the pending read, or the byte in hand, is still handled in
\* full (every delivered byte has its report and its two pushes when the
\* loop is TERMINATED); at most one per-byte report comes after the flag was
\* cleared; and with the loop running and the pending read returning, the
\* session reaches TERMINATED.
C20_DeferredBoundedTermination ==
    /\ [][~keep_running => requests' = requests]_vars
    /\ [](~keep_running => (BegunAfterStop <= 1 /\ EndedAfterStop <= 1))
    /\ [](pc = "done" =>
            /\ ReportsBegun = BytesDelivered
            /\ ReportsEnded = BytesDelivered
            /\ Len(key_calls) = BytesDelivered
            /\ Len(exit_calls) = BytesDelivered)
    /\ (~keep_running ~> pc = "done")

\* C20 witness: SIGINT came while the loop waited for the fourth byte; the
\* read then returned 'u', which was reported in full after the notice, and
\* the loop is TERMINATED without a fifth read.
C20_Witness ==
    /\ pc = "done"
    /\ ~keep_running
    /\ delivered = SubSeq(Typed, 1, 4)
    /\ Len(requests) = 4
    /\ BegunAfterStop = 1
    /\ EndedAfterStop = 1
    /\ ReportsEnded = 4

====
